---- MODULE Spec2Model ----
(***************************************************************************)
(* Model of the ChRIS MCP server (src/mcp-servers/chris/server.py): the    *)
(* in-memory job store JOBS, the tools run_pipeline, get_job_status,       *)
(* get_pacs_image and list_chris_plugins, and the REST endpoints that      *)
(* re-expose them.                                                         *)
(*                                                                         *)
(* Time.  The handlers read the wall clock with time.time(), a float       *)
(* number of seconds.  The wall clock belongs to the operating system: it  *)
(* runs forward between two invocations, and it can be stepped or set back *)
(* (time.time() "can return a lower value than a previous call if the      *)
(* system clock has been set back between the two calls").  Each handler   *)
(* invocation therefore takes the clock reading it gets as an input that   *)
(* is not tied to the reading of the invocation before it.  The model      *)
(* counts the clock in ticks of 1/TicksPerSec second; int(time.time()) is  *)
(* the floor division by TicksPerSec.  The readings explored are the first *)
(* tick of every per_step period and the tick after it, so that every step *)
(* boundary is hit exactly, from one tick below and from one tick above.   *)
(***************************************************************************)
EXTENDS Integers, Sequences, FiniteSets, TLC

VARIABLES
    JOBS,     \* the job store: job identifier -> job record
    reply     \* the last invocation: the tool and its argument, the clock
              \* reading the handler took (at), what the tool returned or
              \* raised (ret), and how it was invoked (via) with the HTTP
              \* status of the answer if that was a REST endpoint

vars == <<JOBS, reply>>

-----------------------------------------------------------------------------
(* Bounds of the model *)

TicksPerSec == 2

LaunchPeriods == 2

(* Program constants *)

per_step == 30

PIPELINE_DEF ==
    [ name |-> "Leg Length Discrepancy Full Workflow v20240705",
      plugin_tree |-> <<
        [title |-> "root-0", plugin |-> "pl-simpledsapp v2.1.0", previous |-> "None"],
        [title |-> "dcm-to-mha-1", plugin |-> "pl-dcm2mha_cnvtr v1.2.24", previous |-> "root-0"],
        [title |-> "joiner-2", plugin |-> "pl-tsjoiner v1.1.3", previous |-> "dcm-to-mha-1"],
        [title |-> "segmentor-3", plugin |-> "pl-legseg v2.3.9", previous |-> "joiner-2"],
        [title |-> "analyzer-4", plugin |-> "pl-legmeasure v3.1.7", previous |-> "segmentor-3"] >> ]

StepCount == Len(PIPELINE_DEF.plugin_tree)

-----------------------------------------------------------------------------
(* The clock *)

PeriodTicks == per_step * TicksPerSec

\* run_pipeline is exercised while the clock is in one of these periods; the
\* clock itself ranges over StepCount periods before and after them, so
\* that every job is seen from more than StepCount periods before its
\* creation to after its completion.
FirstLaunchPeriod == StepCount

LastLaunchPeriod == FirstLaunchPeriod + LaunchPeriods - 1

LastPeriod == LastLaunchPeriod + StepCount

Instants ==
    { p * PeriodTicks + r : p \in 0..LastPeriod, r \in {0, 1} }

LaunchInstants ==
    { t \in Instants :
        (t \div PeriodTicks) \in FirstLaunchPeriod..LastLaunchPeriod }

\* int(time.time())
IntSeconds(t) == t \div TicksPerSec

-----------------------------------------------------------------------------
(* Values *)

MRNs == {"12345", "99999"}

DefaultMrn == "12345"

\* f"job-{int(time.time())}"
JobIdAt(t) == <<"job-", IntSeconds(t)>>

UnknownJobId == <<"nonexistent", 0>>

JobIds == { JobIdAt(t) : t \in LaunchInstants } \cup {UnknownJobId}

\* wrap_tool_output: the envelope {tool, output, timestamp}; the timestamp
\* is formatted to the second.
wrap_tool_output(tool_name, payload, t) ==
    [ kind |-> "return", tool |-> tool_name, output |-> payload,
      timestamp |-> IntSeconds(t) ]

\* An exception that leaves the handler.
Raised(tool_name, exc) ==
    [ kind |-> "raise", tool |-> tool_name, output |-> [exception |-> exc],
      timestamp |-> 0 ]

NoReply == [ tool |-> "none", arg |-> "none", via |-> "none", http |-> 0, at |-> 0,
             ret |-> [kind |-> "none", tool |-> "none",
                      output |-> [none |-> TRUE], timestamp |-> 0] ]

-----------------------------------------------------------------------------
(* run_pipeline *)

NewJob(mrn, t) ==
    [ pipeline_id |-> PIPELINE_DEF.name,
      input_data  |-> [mrn |-> mrn],
      steps       |-> PIPELINE_DEF.plugin_tree,
      start_time  |-> t ]

\* JOBS[job_id] = {...}: inserts, or replaces the record already there.
StoreJob(jobs, job_id, job) ==
    [ id \in (DOMAIN jobs) \cup {job_id} |->
        IF id = job_id THEN job ELSE jobs[id] ]

run_pipeline_ret(t_id, t) ==
    wrap_tool_output("run_pipeline", [job_id |-> JobIdAt(t_id)], t)

-----------------------------------------------------------------------------
(* get_job_status *)

Min(a, b) == IF a <= b THEN a ELSE b

\* int(x) of a float: truncation toward zero
IntTrunc(n, d) == IF n >= 0 THEN n \div d ELSE -((-n) \div d)

\* idx = min(int(elapsed // per_step), len(steps) - 1)
StepIndex(elapsed, n) == Min(elapsed \div PeriodTicks, n - 1)

\* A slip: > where the code has >=
IsCompletedStrict(elapsed, n) == elapsed > PeriodTicks * n

\* completed = elapsed >= per_step * len(steps)
IsCompleted(elapsed, n) == elapsed >= PeriodTicks * n

\* A slip: the 0-based index of the last step where the code has len(steps)
StepNumLastIndex(completed, idx, n) == IF completed THEN n - 1 ELSE idx + 1

\* step_num = len(steps) if completed else (idx + 1)
StepNum(completed, idx, n) == IF completed THEN n ELSE idx + 1

\* steps[i] of a Python list: a negative i counts from the end, and an i
\* outside -len..len-1 raises IndexError.
PyIndexOk(steps, i) == i >= -Len(steps) /\ i <= Len(steps) - 1

PyIndex(steps, i) == IF i >= 0 THEN steps[i + 1] ELSE steps[Len(steps) + i + 1]

\* pct = int(step_num / len(steps) * 100)
Percent(step_num, n) == IntTrunc(step_num * 100, n)

\* job = JOBS.get(job_id)
PyNone == [none |-> TRUE]

\* A slip: JOBS.get(job_id, <a default job>) where the code has no default
JobsGetDefault(jobs, job_id) ==
    IF job_id \in DOMAIN jobs THEN jobs[job_id] ELSE NewJob(DefaultMrn, 0)

JobsGet(jobs, job_id) == IF job_id \in DOMAIN jobs THEN jobs[job_id] ELSE PyNone

\* if not job: None is falsy, and so is an empty dict
NotJob(job) == job = PyNone \/ DOMAIN job = {}

get_job_status_ret(jobs, job_id, t) ==
    LET job == JobsGet(jobs, job_id) IN
    IF NotJob(job)
    THEN wrap_tool_output("get_job_status", [error |-> "job not found"], t)
    ELSE
      LET steps     == job.steps
          elapsed   == t - job.start_time
          idx       == StepIndex(elapsed, Len(steps))
          completed == IsCompleted(elapsed, Len(steps))
          status    == IF completed THEN "COMPLETED" ELSE "RUNNING"
          step_num  == StepNum(completed, idx, Len(steps))
      IN  IF ~completed /\ ~PyIndexOk(steps, idx)
          THEN Raised("get_job_status", "IndexError")
          ELSE
            LET title == IF completed THEN PyIndex(steps, -1).title
                                      ELSE PyIndex(steps, idx).title
                pct   == Percent(step_num, Len(steps))
            IN  wrap_tool_output("get_job_status",
                  [ job_id |-> job_id,
                    status |-> status,
                    step |-> step_num,
                    total_steps |-> Len(steps),
                    step_title |-> title,
                    percent_complete |-> pct ], t)

-----------------------------------------------------------------------------
(* get_pacs_image *)

\* f"https://fakepacs.org/images/{mrn}.png"
PacsUrl(mrn) == <<"https://fakepacs.org/images/", mrn, ".png">>

get_pacs_image_ret(mrn, t) ==
    wrap_tool_output("get_pacs_image", [url |-> PacsUrl(mrn)], t)

-----------------------------------------------------------------------------
(* list_chris_plugins *)

\* JSON values as resp.json() returns them.
JObj(f) == [type |-> "obj", members |-> f, elems |-> <<>>, val |-> ""]

JArr(s) == [type |-> "arr", members |-> <<>>, elems |-> s, val |-> ""]

JStr(v) == [type |-> "str", members |-> <<>>, elems |-> <<>>, val |-> v]

JNull == [type |-> "null", members |-> <<>>, elems |-> <<>>, val |-> ""]

EmptyObj == JObj(<<>>)

Ok(v) == [ok |-> TRUE, val |-> v, exc |-> ""]

Err(e) == [ok |-> FALSE, val |-> JNull, exc |-> e]

\* v.get(key, default): only a dict has .get
PyGet(v, key, default) ==
    IF v.type # "obj" THEN Err("AttributeError")
    ELSE IF key \in DOMAIN v.members THEN Ok(v.members[key]) ELSE Ok(default)

\* v[key] with a string key
PyItem(v, key) ==
    IF v.type # "obj" THEN Err("TypeError")
    ELSE IF key \in DOMAIN v.members THEN Ok(v.members[key]) ELSE Err("KeyError")

\* for x in v: a list yields its elements; a non-empty string or dict yields
\* strings (one stands for them all: the loop body fails on the first); None
\* is not iterable.
PyIter(v) ==
    CASE v.type = "arr"  -> Ok(v.elems)
      [] v.type = "str"  -> Ok(IF v.val = "" THEN <<>> ELSE <<JStr(v.val)>>)
      [] v.type = "obj"  -> Ok(IF DOMAIN v.members = {} THEN <<>> ELSE <<JStr("key")>>)
      [] OTHER           -> Err("TypeError")

\* {d["name"]: d["value"] for d in ...}: a later entry replaces an earlier
\* one with the same key; a list or dict is no dict key.
RECURSIVE DictComp(_, _, _)
DictComp(ds, i, acc) ==
    IF i > Len(ds) THEN Ok(JObj(acc))
    ELSE
      LET k == PyItem(ds[i], "name")
          v == PyItem(ds[i], "value")
      IN  IF ~k.ok THEN Err(k.exc)
          ELSE IF ~v.ok THEN Err(v.exc)
          ELSE IF k.val.type \in {"obj", "arr"} THEN Err("TypeError")
          ELSE DictComp(ds, i + 1,
                 [ x \in (DOMAIN acc) \cup {k.val} |->
                     IF x = k.val THEN v.val ELSE acc[x] ])

\* [{...} for item in items]
RECURSIVE ListComp(_, _, _)
ListComp(items, i, acc) ==
    IF i > Len(items) THEN Ok(JArr(acc))
    ELSE
      LET data == PyGet(items[i], "data", JArr(<<>>)) IN
      IF ~data.ok THEN Err(data.exc)
      ELSE
        LET ds == PyIter(data.val) IN
        IF ~ds.ok THEN Err(ds.exc)
        ELSE
          LET plugin == DictComp(ds.val, 1, <<>>) IN
          IF ~plugin.ok THEN Err(plugin.exc)
          ELSE ListComp(items, i + 1, Append(acc, plugin.val))

\* Lines 66-67, which run outside the try block.
Plugins(data) ==
    LET collection == PyGet(data, "collection", EmptyObj) IN
    IF ~collection.ok THEN Err(collection.exc)
    ELSE
      LET items == PyGet(collection.val, "items", JArr(<<>>)) IN
      IF ~items.ok THEN Err(items.exc)
      ELSE
        LET it == PyIter(items.val) IN
        IF ~it.ok THEN Err(it.exc)
        ELSE ListComp(it.val, 1, <<>>)

\* What the remote catalog call can do: the connection fails, the 10 s
\* timeout expires, or a response arrives with a status and a body.
NotJson == [type |-> "notjson", members |-> <<>>, elems |-> <<>>, val |-> "<html>"]

Datum(n, v) == JObj([k \in {"name", "value"} |-> IF k = "name" THEN JStr(n) ELSE JStr(v)])

Item(ds) == JObj([k \in {"data"} |-> JArr(ds)])

Collection(items) ==
    JObj([k \in {"collection"} |-> JObj([j \in {"items"} |-> items])])

Labelled(label, doc) == [label |-> label, doc |-> doc]

\* Response bodies: the collection document the code expects, and JSON
\* documents of other shapes.
Docs ==
    { Labelled("two plugins",
        Collection(JArr(<< Item(<<Datum("name", "pl-dircopy"), Datum("version", "2.1.1")>>),
                           Item(<<Datum("name", "pl-legseg"), Datum("name", "pl-legseg2")>>) >>))),
      Labelled("no items", Collection(JArr(<<>>))),
      Labelled("items is null", Collection(JNull)),
      Labelled("an item is a string", Collection(JArr(<<JStr("pl-dircopy")>>))),
      Labelled("an item without data", Collection(JArr(<<EmptyObj>>))),
      Labelled("a datum without name",
        Collection(JArr(<<Item(<<JObj([k \in {"value"} |-> JStr("2.1.1")])>>)>>))),
      Labelled("a datum without value",
        Collection(JArr(<<Item(<<JObj([k \in {"name"} |-> JStr("version")])>>)>>))),
      Labelled("collection is null", JObj([k \in {"collection"} |-> JNull])),
      Labelled("no collection", JObj([k \in {"detail"} |-> JStr("Not found.")])),
      Labelled("empty object", EmptyObj),
      Labelled("a JSON array", JArr(<<>>)),
      Labelled("a JSON string", JStr("ok")),
      Labelled("JSON null", JNull) }

Outcomes ==
    { [label |-> "connection failed", event |-> "ConnectError", status |-> 0, body |-> NotJson],
      [label |-> "timed out", event |-> "ReadTimeout", status |-> 0, body |-> NotJson],
      [label |-> "200 with a body that is not JSON", event |-> "response",
       status |-> 200, body |-> NotJson],
      [label |-> "404", event |-> "response", status |-> 404, body |-> NotJson],
      [label |-> "500", event |-> "response", status |-> 500, body |-> NotJson] }
    \cup { [label |-> d.label, event |-> "response", status |-> 200, body |-> d.doc] : d \in Docs }

\* The try block: client.get, resp.raise_for_status, resp.json
Fetch(outcome) ==
    IF outcome.event # "response" THEN Err(outcome.event)
    ELSE IF outcome.status >= 400 THEN Err("HTTPStatusError")
    ELSE IF outcome.body = NotJson THEN Err("JSONDecodeError")
    ELSE Ok(outcome.body)

list_chris_plugins_ret(outcome, t) ==
    LET data == Fetch(outcome) IN
    IF ~data.ok
    THEN wrap_tool_output("list_chris_plugins", [error |-> data.exc], t)
    ELSE
      LET plugins == Plugins(data.val) IN
      IF ~plugins.ok
      THEN Raised("list_chris_plugins", plugins.exc)
      ELSE wrap_tool_output("list_chris_plugins", [plugins |-> plugins.val.elems], t)

-----------------------------------------------------------------------------
(* REST endpoints *)

\* JSONResponse(json.loads(await tool(...))): status 200 with the envelope
\* as the body; an exception leaving the tool leaves the endpoint too and
\* the server answers 500.
JSONResponse(ret) == IF ret.kind = "return" THEN 200 ELSE 500

\* A tool invoked over the duplex session has no HTTP status: 0 stands for
\* none.
HttpStatus(via, ret) == IF via = "rest" THEN JSONResponse(ret) ELSE 0

-----------------------------------------------------------------------------
(* Actions *)

Init ==
    /\ JOBS = [id \in {} |-> PyNone]
    /\ reply = NoReply

\* t_id is the clock reading of line 83 and t_start the one of line 88: the
\* handler does not suspend between them, so the clock has ticked over at
\* most once.
RunPipeline(mrn, via, t_id, t_start) ==
    /\ t_id \in LaunchInstants
    /\ t_start \in LaunchInstants
    /\ t_id <= t_start /\ t_start <= t_id + 1
    /\ JOBS' = StoreJob(JOBS, JobIdAt(t_id), NewJob(mrn, t_start))
    /\ reply' = [ tool |-> "run_pipeline", arg |-> mrn,
                  via |-> via,
                  http |-> HttpStatus(via, run_pipeline_ret(t_id, t_start)),
                  at |-> t_start,
                  ret |-> run_pipeline_ret(t_id, t_start) ]

GetJobStatus(job_id, via, t) ==
    /\ reply' = [ tool |-> "get_job_status", arg |-> job_id,
                  via |-> via,
                  http |-> HttpStatus(via, get_job_status_ret(JOBS, job_id, t)),
                  at |-> t,
                  ret |-> get_job_status_ret(JOBS, job_id, t) ]
    /\ UNCHANGED JOBS

GetPacsImage(mrn, via, t) ==
    /\ reply' = [ tool |-> "get_pacs_image", arg |-> mrn,
                  via |-> via,
                  http |-> HttpStatus(via, get_pacs_image_ret(mrn, t)),
                  at |-> t,
                  ret |-> get_pacs_image_ret(mrn, t) ]
    /\ UNCHANGED JOBS

\* The tools, invoked over the duplex session
ToolRunPipeline(mrn) ==
    \E t_id, t_start \in LaunchInstants : RunPipeline(mrn, "session", t_id, t_start)

ToolGetJobStatus(job_id) ==
    \E t \in Instants : GetJobStatus(job_id, "session", t)

\* The clock reading of get_pacs_image and list_chris_plugins only stamps the
\* envelope: a few readings stand for them all.
ToolGetPacsImage(mrn) ==
    \E t \in LaunchInstants : GetPacsImage(mrn, "session", t)

\* limit is forwarded to the catalog; the catalog decides the response.
ToolListChrisPlugins(outcome) ==
    /\ \E t \in LaunchInstants :
         reply' = [ tool |-> "list_chris_plugins", arg |-> outcome.label,
                    via |-> "session",
                    http |-> HttpStatus("session", list_chris_plugins_ret(outcome, t)),
                    at |-> t,
                    ret |-> list_chris_plugins_ret(outcome, t) ]
    /\ UNCHANGED JOBS

\* GET /api/v1/pacs/{mrn}
pacs_endpoint(mrn) ==
    \E t \in LaunchInstants : GetPacsImage(mrn, "rest", t)

\* POST /api/v1/pipeline/run/{pipeline_id}: the path parameter is not read
pipeline_run ==
    \E t_id, t_start \in LaunchInstants : RunPipeline(DefaultMrn, "rest", t_id, t_start)

\* GET /api/v1/job/status/{job_id}
job_status(job_id) ==
    \E t \in Instants : GetJobStatus(job_id, "rest", t)

Next ==
    \/ \E mrn \in MRNs : ToolRunPipeline(mrn)
    \/ \E job_id \in JobIds : ToolGetJobStatus(job_id)
    \/ \E mrn \in MRNs : ToolGetPacsImage(mrn)
    \/ \E outcome \in Outcomes : ToolListChrisPlugins(outcome)
    \/ \E mrn \in MRNs : pacs_endpoint(mrn)
    \/ pipeline_run
    \/ \E job_id \in JobIds : job_status(job_id)

Spec == Init /\ [][Next]_vars

-----------------------------------------------------------------------------
(* Properties *)

\* The last invocation was a get_job_status that returned a ProgressState.
IsStatus(r) ==
    /\ r.tool = "get_job_status"
    /\ r.ret.kind = "return"
    /\ "status" \in DOMAIN r.ret.output

\* The last invocation was a get_job_status of a job that is in the store.
\* (A run_pipeline replaces reply, so the record under reply.arg is the one
\* the query read.)
QueriedJob == reply.tool = "get_job_status" /\ reply.arg \in DOMAIN JOBS

AnyRunPipeline == (\E mrn \in MRNs : ToolRunPipeline(mrn)) \/ pipeline_run

\* C1: every run_pipeline invocation returns a job identifier that no
\* earlier invocation has returned, that is, one not yet in the job store.
C1_DistinctJobIds ==
    [][AnyRunPipeline => reply'.ret.output.job_id \notin DOMAIN JOBS]_vars

\* C2: jobs are write-once: an identifier in the job store stays there, and
\* the record under it is the same in every later state.
C2_WriteOnce ==
    [][\A id \in DOMAIN JOBS : id \in DOMAIN JOBS' /\ JOBS'[id] = JOBS[id]]_vars

\* C3: of two successive queries of one job, the later made at a clock
\* reading not below the earlier one's, the later reports a step number not
\* below the earlier one's.
C3_StepNonDecreasing ==
    [][ ( /\ IsStatus(reply) /\ IsStatus(reply')
          /\ reply'.arg = reply.arg
          /\ reply'.at >= reply.at )
        => reply'.ret.output.step >= reply.ret.output.step ]_vars

C3_Witness ==
    /\ IsStatus(reply)
    /\ reply.ret.output.status = "RUNNING"
    /\ reply.ret.output.step = 3
    /\ reply.at > JOBS[reply.arg].start_time

\* A query made D * stepCount or more after the job's creation reports
\* COMPLETED, step = stepCount and 100 percent.
C4_CompletedAtEnd ==
    ( /\ QueriedJob
      /\ reply.at >= JOBS[reply.arg].start_time
                       + per_step * TicksPerSec * Len(JOBS[reply.arg].steps) )
    => /\ IsStatus(reply)
       /\ reply.ret.output.status = "COMPLETED"
       /\ reply.ret.output.step = Len(JOBS[reply.arg].steps)
       /\ reply.ret.output.percent_complete = 100

\* Once a query has reported COMPLETED, a query of that job at a clock
\* reading not below it reports COMPLETED.
C4_Absorbing ==
    ( /\ IsStatus(reply)
      /\ reply.ret.output.status = "COMPLETED"
      /\ reply'.tool = "get_job_status"
      /\ reply'.arg = reply.arg
      /\ reply'.at >= reply.at )
    => /\ IsStatus(reply')
       /\ reply'.ret.output.status = "COMPLETED"

\* C4: for every job and every query time now >= createdAt + D * stepCount,
\* get_job_status reports COMPLETED, step = stepCount and percent 100, and
\* once COMPLETED has been reported every later query reports COMPLETED.
C4_CompletedIsTerminal == [][C4_CompletedAtEnd' /\ C4_Absorbing]_vars

C4_Witness ==
    /\ IsStatus(reply)
    /\ reply.ret.output.status = "COMPLETED"
    /\ reply.at > JOBS[reply.arg].start_time
                    + per_step * TicksPerSec * Len(JOBS[reply.arg].steps)

\* C5: for every job and every query time now < createdAt + D,
\* get_job_status reports RUNNING and step 1, with total_steps 5 and
\* percent 20 for the built-in pipeline.
C5_FirstStepBeforeD ==
    ( /\ QueriedJob
      /\ reply.at < JOBS[reply.arg].start_time + per_step * TicksPerSec )
    => /\ IsStatus(reply)
       /\ reply.ret.output.status = "RUNNING"
       /\ reply.ret.output.step = 1
       /\ reply.ret.output.total_steps = 5
       /\ reply.ret.output.percent_complete = 20

\* C6: in every ProgressState returned, percent_complete is in 0..100 and
\* equals floor(step / total_steps * 100).
C6_PercentInRange ==
    IsStatus(reply)
    => /\ reply.ret.output.percent_complete \in 0..100
       /\ reply.ret.output.percent_complete
            = (reply.ret.output.step * 100) \div reply.ret.output.total_steps

\* C7: get_job_status of an identifier that is not in the job store returns
\* the enveloped payload {error: "job not found"}, raises nothing and
\* leaves the job store unchanged.
C7_UnknownJobIsAnError ==
    [][ (reply'.tool = "get_job_status" /\ reply'.arg \notin DOMAIN JOBS)
        => /\ reply'.ret.kind = "return"
           /\ reply'.ret.tool = "get_job_status"
           /\ reply'.ret.output = [error |-> "job not found"]
           /\ JOBS' = JOBS ]_vars

C7_Witness ==
    /\ reply.tool = "get_job_status"
    /\ reply.arg \notin DOMAIN JOBS
    /\ reply.ret.output = [error |-> "job not found"]
    /\ JOBS # <<>>

\* C8: list_chris_plugins ends by returning an enveloped result, a plugins
\* list or an {error: message} payload, for every outcome of the remote
\* catalog call.
C8_PluginsAlwaysReturns ==
    reply.tool = "list_chris_plugins"
    => /\ reply.ret.kind = "return"
       /\ \/ DOMAIN reply.ret.output = {"plugins"}
          \/ DOMAIN reply.ret.output = {"error"}

\* C9: the REST facade answers 200 only when the tool succeeded, and a
\* status request for an identifier not in the job store gets a 4xx.
C9_RestStatusCodes ==
    /\ (reply.via = "rest" /\ reply.http = 200)
         => reply.ret.kind = "return" /\ "error" \notin DOMAIN reply.ret.output
    /\ ( /\ reply.tool = "get_job_status"
         /\ reply.via = "rest"
         /\ reply.arg \notin DOMAIN JOBS )
       => reply.http \in 400..499

\* C10: for every job and every clock reading, get_job_status reports a
\* step in 1..total_steps, and step_title is the title of the step at that
\* position of the job's step list (the last one when COMPLETED).
C10_StepClamped ==
    QueriedJob
    => /\ IsStatus(reply)
       /\ reply.ret.output.step \in 1..reply.ret.output.total_steps
       /\ reply.ret.output.total_steps = Len(JOBS[reply.arg].steps)
       /\ reply.ret.output.step_title
            = JOBS[reply.arg].steps[reply.ret.output.step].title
       /\ reply.ret.output.status = "COMPLETED"
            => reply.ret.output.step = Len(JOBS[reply.arg].steps)

====
